---- MODULE Spec2Model ----
(***************************************************************************)
(* Model of deephedging's DenseLayer / VariableLayer (layers.py) and of    *)
(* MonetaryUtility / utility (objectives.py).                              *)
(*                                                                         *)
(* Encoding conventions                                                    *)
(*   - Python None is the empty tuple <<>>, a present value x is <<x>>.    *)
(*   - Feature names are the integers of Names; their integer order is the *)
(*     string order Python's sorted() uses ("a" < "b").              *)
(*   - A dict argument is a record [isMapping, items]; a non-Mapping       *)
(*     argument has isMapping = FALSE.  The items of a shape dict are a    *)
(*     function name -> shape tuple; the items of a data dict are the      *)
(*     insertion-ordered sequence of <<key, tensor>> pairs, a tensor being *)
(*     identified by its second dimension.                                 *)
(*   - Faults are strings naming the exception the source raises.          *)
(***************************************************************************)
EXTENDS Integers, Sequences, FiniteSets, TLC

VARIABLES pc, ctor, layer, nModels, shapes, data, ret, obj, ucall

vars == <<pc, ctor, layer, nModels, shapes, data, ret, obj, ucall>>

(***************************************************************************)
(* Bounds of the model                                                     *)
(***************************************************************************)
MaxLen == 2
MaxDepth == 2
MaxModels == 2
BatchLen == 2

Names == {1, 2}
Widths == {0, 1}
Outputs == {0, 1}

(***************************************************************************)
(* Program constants                                                       *)
(***************************************************************************)
DefaultWidth == 20

None == <<>>
Some(x) == <<x>>
IsNone(o) == o = <<>>
Get(o) == o[1]

NoFault == "none"

(***************************************************************************)
(* sorted( set( features ) )                                               *)
(***************************************************************************)
SetOf(list) == {list[i] : i \in DOMAIN list}

RECURSIVE SortedSet(_)
SortedSet(S) ==
    IF S = {} THEN <<>>
    ELSE LET m == CHOOSE x \in S : \A y \in S : x <= y
         IN  <<m>> \o SortedSet(S \ {m})

\* Variant of Sorted that keeps the list as given (order and duplicates).
UnsortedSet(list) == list

Sorted(list) == SortedSet(SetOf(list))

(***************************************************************************)
(* VariableLayer.__init__ : a variable initialised from a value or, when   *)
(* given a shape tuple, from the glorot initialiser.                       *)
(***************************************************************************)
VariableLayer(id, init, trainable) ==
    [kind      |-> "VariableLayer",
     id        |-> id,
     input     |-> 0,
     shape     |-> init.shape,
     init      |-> IF init.kind = "shape" THEN "glorot" ELSE "value",
     trainable |-> trainable,
     layers    |-> <<>>]

(***************************************************************************)
(* DenseLayer.__init__                                                     *)
(*   features      : None or Some(list of names)                           *)
(*   nOutput       : integer                                               *)
(*   initial_value : [kind |-> "None" | "scalar" | "ndarray", len]         *)
(*   config        : [depth, zero_model]                                   *)
(* Returns [fault, self]; self is meaningful only when fault = NoFault.    *)
(***************************************************************************)
NoLayer ==
    [features |-> None, nOutput |-> 0, width |-> 0, depth |-> 0,
     zero_model |-> FALSE, nFeatures |-> None, model |-> None,
     initial_value |-> None]

DenseLayer_init(features, nOutput, initial_value, config) ==
    LET sorted == IF ~IsNone(features) THEN Some(Sorted(Get(features))) ELSE None
        feats  == IF Len(Get(sorted)) > 0 THEN sorted ELSE None
        self   == [features      |-> feats,
                   nOutput       |-> nOutput,
                   width         |-> DefaultWidth,
                   depth         |-> config.depth,
                   zero_model    |-> config.zero_model,
                   nFeatures     |-> None,
                   model         |-> None,
                   initial_value |-> IF initial_value.kind = "None" THEN None
                                     ELSE Some(nOutput)]
    IN  IF IsNone(sorted)
          THEN [fault |-> "TypeError: object of type 'NoneType' has no len()",
                self |-> NoLayer]
        ELSE IF initial_value.kind = "ndarray" /\ initial_value.len # nOutput
          THEN [fault |-> "VerifyError: initial value shape does not match 'nOutput'",
                self |-> NoLayer]
        ELSE IF ~(nOutput > 0)
          THEN [fault |-> "VerifyError: 'nOutput' must be positive",
                self |-> NoLayer]
        ELSE [fault |-> NoFault, self |-> self]

(***************************************************************************)
(* DenseLayer.build                                                        *)
(***************************************************************************)
\* Variant of CollectFeature that skips a name that is no key of shapes.
SkipUnknownFeature(shp, feature) ==
    IF feature \notin DOMAIN shp.items
      THEN [fault |-> NoFault, width |-> 0]
    ELSE IF Len(shp.items[feature]) # 2
      THEN [fault |-> "AssertionError: all features should have been flattend",
            width |-> 0]
    ELSE [fault |-> NoFault, width |-> shp.items[feature][2]]

\* One iteration of the loop over self.features: the verify, the shape
\* lookup, the rank assertion and the width fs[1] added to nFeatures.
CollectFeature(shp, feature) ==
    IF feature \notin DOMAIN shp.items
      THEN [fault |-> "VerifyError: Unknown feature", width |-> 0]
    ELSE IF Len(shp.items[feature]) # 2
      THEN [fault |-> "AssertionError: all features should have been flattend",
            width |-> 0]
    ELSE [fault |-> NoFault, width |-> shp.items[feature][2]]

\* The loop over self.features from position i on, nFeatures so far = acc.
RECURSIVE CollectFeatures(_, _, _, _)
CollectFeatures(features, shp, i, acc) ==
    IF i > Len(features) THEN [fault |-> NoFault, nFeatures |-> acc]
    ELSE LET r == CollectFeature(shp, features[i])
         IN  IF r.fault # NoFault THEN [fault |-> r.fault, nFeatures |-> acc]
             ELSE CollectFeatures(features, shp, i + 1, acc + r.width)

\* Variant of DenseStack in which depth counts the output layer too.
DenseStackTotalDepth(depth, width, nOutput) ==
    [d \in 1..(depth - 1) |-> [units |-> width, activation |-> "relu"]]
      \o << [units |-> nOutput, activation |-> "linear"] >>

\* The dense layers applied between the Input and the output, in order.
DenseStack(depth, width, nOutput) ==
    << [units |-> width, activation |-> "relu"] >>
      \o [d \in 1..(depth - 1) |-> [units |-> width, activation |-> "relu"]]
      \o << [units |-> nOutput, activation |-> "linear"] >>

KerasModel(id, nFeatures, layers, nOutput) ==
    [kind      |-> "Model",
     id        |-> id,
     input     |-> nFeatures,
     shape     |-> nOutput,
     init      |-> "glorot",
     trainable |-> TRUE,
     layers    |-> layers]

\* Variant of Unbuilt without the assertion.
AlwaysUnbuilt(self) == TRUE

\* assert self.nFeatures is None and self.model is None
Unbuilt(self) == IsNone(self.nFeatures) /\ IsNone(self.model)

\* Returns [fault, self, created]: the fault raised (or NoFault), the object
\* as the call leaves it, and the number of model objects it constructed.
DenseLayer_build(self, shp, id) ==
    IF ~(IsNone(self.features) \/ shp.isMapping)
      THEN [fault |-> "VerifyError: 'shapes' must be a dictionary type",
            self |-> self, created |-> 0]
    ELSE IF ~Unbuilt(self)
      THEN [fault |-> "AssertionError: build() called twice",
            self |-> self, created |-> 0]
    ELSE
      LET c  == IF IsNone(self.features) THEN [fault |-> NoFault, nFeatures |-> 0]
                ELSE CollectFeatures(Get(self.features), shp, 1, 0)
          s1 == [self EXCEPT !.nFeatures = Some(c.nFeatures)]
      IN  IF c.fault # NoFault
            THEN [fault |-> c.fault, self |-> s1, created |-> 0]
          ELSE IF c.nFeatures = 0
            THEN [fault |-> NoFault,
                  self |-> [s1 EXCEPT !.model = Some(VariableLayer(id,
                              IF IsNone(self.initial_value)
                                THEN [kind |-> "shape", shape |-> self.nOutput]
                                ELSE [kind |-> "value", shape |-> Get(self.initial_value)],
                              TRUE))],
                  created |-> 1]
          ELSE
            LET m == KerasModel(id, c.nFeatures,
                                DenseStack(self.depth, self.width, self.nOutput),
                                self.nOutput)
            IN  [fault |-> IF self.zero_model THEN "NotImplementedError: zero_model"
                           ELSE NoFault,
                 self |-> [s1 EXCEPT !.model = Some(m)],
                 created |-> 1]

(***************************************************************************)
(* DenseLayer.call                                                         *)
(***************************************************************************)
HasKey(d, k) == \E i \in DOMAIN d.items : d.items[i][1] = k

\* data[k] of an insertion-ordered dict with unique keys
Lookup(d, k) == d.items[CHOOSE i \in DOMAIN d.items : d.items[i][1] = k][2]

RECURSIVE SumWidths(_)
SumWidths(ts) == IF ts = <<>> THEN 0 ELSE Head(ts)[2] + SumWidths(Tail(ts))

\* Variant of Gather that takes the tensors in the key order of data.
CallSiteOrder(features, d) ==
    SelectSeq(d.items, LAMBDA kv : kv[1] \in SetOf(features))

\* [ data[_] for _ in self.features ]: each tensor with the key it came from
Gather(features, d) ==
    [i \in DOMAIN features |-> <<features[i], Lookup(d, features[i])>>]

\* Returns [fault, concat, out]: concat is the sequence of <<key, tensor>> fed
\* to tf.concat (empty when no concatenation takes place), out the id of the
\* model object that produced the result (0 when the call faults).
DenseLayer_call(self, d) ==
    IF ~(IsNone(self.features) \/ d.isMapping)
      THEN [fault |-> "VerifyError: 'data' must be a dictionary type",
            concat |-> <<>>, out |-> 0]
    ELSE IF IsNone(self.model)
      THEN [fault |-> "VerifyError: Model has not been buit yet",
            concat |-> <<>>, out |-> 0]
    ELSE IF self.nFeatures = Some(0)
      THEN [fault |-> NoFault, concat |-> <<>>, out |-> Get(self.model).id]
    ELSE IF \E i \in DOMAIN Get(self.features) : ~HasKey(d, Get(self.features)[i])
      THEN [fault |-> "KeyError", concat |-> <<>>, out |-> 0]
    ELSE
      LET features == Gather(Get(self.features), d)
      IN  IF Get(self.nFeatures) # SumWidths(features)
            THEN [fault |-> "AssertionError: number of features should match up",
                  concat |-> features, out |-> 0]
          ELSE [fault |-> NoFault, concat |-> features,
                out |-> Get(self.model).id]

(***************************************************************************)
(* Arithmetic of objectives.py                                             *)
(*                                                                         *)
(* Tensor entries are fixed-point numbers: the integer v stands for        *)
(* v / SCALE.  The sums, products and quotients of the piecewise           *)
(* polynomial families (mean, cvar, quad, the quadratic half of exp2) are  *)
(* exact on the values used here; Exp and Sqrt are truncated to the unit   *)
(* 1 / SCALE.  A risk aversion is a decimal [m, e] standing for            *)
(* m * 10^(-e), so that values below 1E-12 can be told from 0.             *)
(***************************************************************************)
SCALE == 10 * 10 * 10
HALF == SCALE \div 2

FMul(a, b) == (a * b) \div SCALE
FDiv(a, b) == (a * SCALE) \div b
Min(a, b) == IF a < b THEN a ELSE b

\* tf.math.exp: argument halving down to |x| <= 1/2, then the Taylor sum
RECURSIVE Exp(_)
Exp(x) ==
    IF x > HALF \/ x < -HALF
      THEN LET h == Exp(x \div 2) IN FMul(h, h)
    ELSE SCALE + x + FMul(x, x) \div 2 + FMul(FMul(x, x), x) \div 6
           + FMul(FMul(FMul(x, x), x), x) \div 24

RECURSIVE ISqrt(_, _, _)
ISqrt(n, lo, hi) ==
    IF lo >= hi THEN lo
    ELSE LET mid == (lo + hi + 1) \div 2
         IN  IF mid * mid <= n THEN ISqrt(n, mid, hi) ELSE ISqrt(n, lo, mid - 1)

\* tf.math.sqrt
Sqrt(v) == ISqrt(v * SCALE, 0, v + SCALE)

\* lmbda >= 0.
NonNegative(l) == l.m >= 0
\* Variant of Positive that admits 0.
PositiveOrZero(l) == l.m >= 0

\* lmbda > 0.
Positive(l) == l.m > 0

\* lmbda < 1E-12
BelowThreshold(l) ==
    IF l.e <= 12 THEN l.m <= 0 ELSE l.m < 10 ^ (l.e - 12)

\* the fixed-point value of a risk aversion that is a multiple of 1 / SCALE
ToFixed(l) == (l.m * SCALE) \div (10 ^ l.e)

One == [m |-> 1, e |-> 0]

(***************************************************************************)
(* utility( utility, lmbda, X, y )                                         *)
(*   X : sequence of fixed-point numbers (one per sample)                  *)
(*   y : None or Some(fixed-point number), broadcast over the samples      *)
(* Returns [fault, branch, u, d]; branch names the formula evaluated.      *)
(***************************************************************************)
\* Variant of Dispatch that resets lmbda but keeps the family.
KeepFamilyBelowThreshold(utility, lmbda) ==
    IF BelowThreshold(lmbda)
      THEN [utility |-> utility, lmbda |-> One]
      ELSE [utility |-> utility, lmbda |-> lmbda]

\* if lmbda < 1E-12: utility = "mean"; lmbda = 1.
Dispatch(utility, lmbda) ==
    IF BelowThreshold(lmbda)
      THEN [utility |-> "mean", lmbda |-> One]
      ELSE [utility |-> utility, lmbda |-> lmbda]

SeqMin(xs) == CHOOSE m \in SetOf(xs) : \A x \in SetOf(xs) : m <= x

\* u and d of one sample with gains g in a batch whose minimum gain is inf
UtilityOf(utility, L, g, y, inf) ==
    IF utility \in {"mean", "expectation"} THEN
        [u |-> g, d |-> SCALE]
    ELSE IF utility = "cvar" THEN
        [u |-> FMul(SCALE + L, Min(0, g)) - y,
         d |-> IF g < 0 THEN -(SCALE + L) ELSE 0]
    ELSE IF utility = "quad" THEN
        LET x0 == FDiv(SCALE, L)
        IN  [u |-> (IF g < x0
                      THEN -FMul(FMul(HALF, L), FMul(g - x0, g - x0))
                      ELSE 0)
                   + FMul(HALF, FMul(x0, x0)) - y,
             d |-> IF g < x0 THEN -FMul(L, g - x0) ELSE 0]
    ELSE IF utility \in {"exp", "entropy"} THEN
        [u |-> FDiv(SCALE - Exp(-FMul(L, g - inf)), L) - y + inf,
         d |-> Exp(-FMul(L, g))]
    ELSE IF utility = "exp2" THEN
        [u |-> IF g > 0 THEN FDiv(SCALE - Exp(-FMul(L, g)), L) - y
                        ELSE g - FMul(FMul(FMul(HALF, L), g), g) - y,
         d |-> IF g > 0 THEN Exp(-FMul(L, g)) ELSE SCALE - FMul(L, g)]
    ELSE \* "vicky"
        LET lg == FMul(L, g)
            rt == Sqrt(SCALE + FMul(lg, lg))
        IN  [u |-> FDiv(SCALE + lg - rt, L) - y,
             d |-> SCALE - FDiv(lg, rt)]

Families == {"mean", "exp", "exp2", "vicky", "cvar", "quad"}
Aliases == {"expectation", "entropy"}

utility(utility_, lmbda_, X, y_) ==
    LET y     == IF IsNone(y_) THEN 0 ELSE Get(y_)
        gains == [i \in DOMAIN X |-> X[i] + y]
        sel   == Dispatch(utility_, lmbda_)
        L     == ToFixed(sel.lmbda)
        r     == [i \in DOMAIN X |->
                    UtilityOf(sel.utility, L, gains[i], y, SeqMin(gains))]
    IN  IF ~NonNegative(lmbda_)
          THEN [fault |-> "VerifyError: Risk aversion 'lmbda' cannot be negative",
                branch |-> "none", u |-> <<>>, d |-> <<>>]
        ELSE IF sel.utility \notin Families \cup Aliases
          THEN [fault |-> "UnboundLocalError: u", branch |-> "none",
                u |-> <<>>, d |-> <<>>]
        ELSE [fault |-> NoFault, branch |-> sel.utility,
              u |-> [i \in DOMAIN X |-> r[i].u],
              d |-> [i \in DOMAIN X |-> r[i].d]]

(***************************************************************************)
(* MonetaryUtility.__init__                                                *)
(*   config : [utility, lmbda, features, network]                          *)
(* Returns [fault, self, created]; self.y is [kind, variable, dense]: the  *)
(* fixed variable of utility "mean", or the DenseLayer.                    *)
(***************************************************************************)
NoObjective ==
    [utility |-> "none", lmbda |-> One,
     y |-> [kind |-> "none", variable |-> None,
            dense |-> NoLayer]]

MonetaryUtility_init(config, id) ==
    IF config.utility \notin Families
      THEN [fault |-> "ConfigError: utility", self |-> NoObjective, created |-> 0]
    ELSE IF ~Positive(config.lmbda)
      THEN [fault |-> "VerifyError: 'lmnda' must be positive",
            self |-> NoObjective, created |-> 0]
    ELSE IF config.utility \in {"mean"}
      THEN [fault |-> NoFault,
            self |-> [utility |-> config.utility, lmbda |-> config.lmbda,
                      y |-> [kind |-> "VariableLayer",
                             variable |-> Some(VariableLayer(id,
                                 [kind |-> "value", shape |-> 0], FALSE)),
                             dense |-> NoLayer]],
            created |-> 1]
    ELSE
      LET r == DenseLayer_init(Some(config.features), 1,
                               [kind |-> "scalar", len |-> 0], config.network)
      IN  [fault |-> r.fault,
           self |-> [utility |-> config.utility, lmbda |-> config.lmbda,
                     y |-> [kind |-> "DenseLayer",
                            variable |-> None, dense |-> r.self]],
           created |-> 0]

NoResult == [fault |-> NoFault, branch |-> "none", u |-> <<>>, d |-> <<>>]

(***************************************************************************)
(* Arguments the callers can pass                                          *)
(***************************************************************************)
SeqsUpTo(S, n) == UNION {[1..k -> S] : k \in 0..n}

FeatureArgs == {None} \cup {Some(l) : l \in SeqsUpTo(Names, MaxLen)}

InitialValues ==
    {[kind |-> "None", len |-> 0], [kind |-> "scalar", len |-> 0]}
      \cup {[kind |-> "ndarray", len |-> n] : n \in Outputs \ {0}}

Configs == [depth : 1..MaxDepth, zero_model : BOOLEAN]

\* (batch, width) shapes of flattened features, and one that was not flattened
Shapes == {<<1, w>> : w \in Widths} \cup {<<1, 1, 1>>}

NotAMapping == [isMapping |-> FALSE, items |-> <<>>]

ShapeArgs ==
    {NotAMapping} \cup
    {[isMapping |-> TRUE, items |-> f] :
        f \in UNION {[D -> Shapes] : D \in SUBSET Names}}

DataArgs ==
    {NotAMapping} \cup
    {[isMapping |-> TRUE, items |-> kv] :
        kv \in {q \in SeqsUpTo(Names \X Widths, MaxLen) :
                  \A i, j \in DOMAIN q : i # j => q[i][1] # q[j][1]}}

\* Risk aversions: -1, 0, 5E-13, 9E-13, 0.5, 1, 2
Lmbdas ==
    {[m |-> -1, e |-> 0], [m |-> 0, e |-> 0], [m |-> 5, e |-> 13],
     [m |-> 9, e |-> 13], [m |-> 5, e |-> 1], One, [m |-> 2, e |-> 0]}

UtilityNames == Families \cup {"other"}

Xs == {k * SCALE : k \in -2..2}
Ys == {0, SCALE}
Batches == [1..BatchLen -> Xs]

NoCall ==
    [op |-> "none", utility |-> "none", lmbda |-> One, X |-> <<>>, y |-> None,
     ret |-> NoResult]

NoConfig ==
    [utility |-> "none", lmbda |-> One, features |-> <<>>,
     network |-> [depth |-> 1, zero_model |-> FALSE]]

NoArgs ==
    [features |-> None, nOutput |-> 0,
     initial_value |-> [kind |-> "None", len |-> 0],
     config |-> [depth |-> 1, zero_model |-> FALSE]]

NoRet == [op |-> "none", fault |-> NoFault, concat |-> <<>>, out |-> 0]

(***************************************************************************)
(* The life of one DenseLayer: constructed, built, called                  *)
(***************************************************************************)
Init ==
    /\ pc = "new"
    /\ ctor = NoArgs
    /\ layer = NoLayer
    /\ nModels = 0
    /\ shapes = NotAMapping
    /\ data = NotAMapping
    /\ ret = NoRet
    /\ obj = [config |-> NoConfig, self |-> NoObjective]
    /\ ucall = NoCall

\* DenseLayer(features, nOutput, initial_value, config)
Construct ==
    /\ pc = "new"
    /\ \E features \in FeatureArgs, nOutput \in Outputs,
          initial_value \in InitialValues, config \in Configs :
         LET r == DenseLayer_init(features, nOutput, initial_value, config)
         IN  /\ ctor' = [features |-> features, nOutput |-> nOutput,
                       initial_value |-> initial_value, config |-> config]
             /\ layer' = r.self
             /\ pc' = IF r.fault = NoFault THEN "ready" ELSE "failed"
             /\ ret' = [NoRet EXCEPT !.op = "init", !.fault = r.fault]
    /\ UNCHANGED <<nModels, shapes, data, obj, ucall>>

\* layer.build(shapes)
Build ==
    /\ pc \in {"ready", "built"}
    /\ nModels < MaxModels
    /\ \E shp \in ShapeArgs :
         LET r == DenseLayer_build(layer, shp, nModels + 1)
         IN  /\ layer' = r.self
             /\ nModels' = nModels + r.created
             /\ shapes' = shp
             /\ pc' = IF r.fault = NoFault THEN "built" ELSE pc
             /\ ret' = [NoRet EXCEPT !.op = "build", !.fault = r.fault]
    /\ data' = NotAMapping
    /\ UNCHANGED <<ctor, obj, ucall>>

\* layer.call(data)
Call ==
    /\ pc \in {"ready", "built"}
    /\ \E d \in DataArgs :
         LET r == DenseLayer_call(layer, d)
         IN  /\ data' = d
             /\ ret' = [op |-> "call", fault |-> r.fault,
                        concat |-> r.concat, out |-> r.out]
    /\ shapes' = NotAMapping
    /\ UNCHANGED <<pc, ctor, layer, nModels, obj, ucall>>

Next == Construct \/ Build \/ Call

Spec == Init /\ [][Next]_vars

(***************************************************************************)
(* Calls of utility() on batches                                           *)
(***************************************************************************)
UtilityCalls ==
    [op : {"args"}, utility : UtilityNames, lmbda : Lmbdas, X : Batches,
     y : {None} \cup {Some(v) : v \in Ys}, ret : {NoResult}]

InitUtility ==
    /\ pc = "new"
    /\ ctor = NoArgs
    /\ layer = NoLayer
    /\ nModels = 0
    /\ shapes = NotAMapping
    /\ data = NotAMapping
    /\ ret = NoRet
    /\ obj = [config |-> NoConfig, self |-> NoObjective]
    /\ ucall \in UtilityCalls

\* utility( utility, lmbda, X, y ) applied to the arguments drawn
Utility ==
    /\ ucall.op = "args"
    /\ ucall' = [ucall EXCEPT
                   !.op = "utility",
                   !.ret = utility(ucall.utility, ucall.lmbda, ucall.X, ucall.y)]
    /\ UNCHANGED <<pc, ctor, layer, nModels, shapes, data, ret, obj>>

NextUtility == Utility

SpecUtility == InitUtility /\ [][NextUtility]_vars

(***************************************************************************)
(* The construction of one MonetaryUtility                                 *)
(***************************************************************************)
ObjectiveConfigs ==
    [utility : UtilityNames, lmbda : Lmbdas,
     features : SeqsUpTo(Names, MaxLen), network : Configs]

InitObjective == Init

\* MonetaryUtility(config)
ConstructObjective ==
    /\ pc = "new"
    /\ \E config \in ObjectiveConfigs :
         LET r == MonetaryUtility_init(config, nModels + 1)
         IN  /\ obj' = [config |-> config, self |-> r.self]
             /\ nModels' = nModels + r.created
             /\ pc' = IF r.fault = NoFault THEN "ready" ELSE "failed"
             /\ ucall' = [NoCall EXCEPT !.op = "init", !.ret.fault = r.fault]
    /\ UNCHANGED <<ctor, layer, shapes, data, ret>>

NextObjective == ConstructObjective

SpecObjective == InitObjective /\ [][NextObjective]_vars

(***************************************************************************)
(* Properties of the DenseLayer life cycle                                 *)
(***************************************************************************)
UnknownFeature == "VerifyError: Unknown feature"
BuiltTwice == "AssertionError: build() called twice"

\* The step is a build() call that changed the state.
BuildStep == ret'.op = "build" /\ vars' # vars

\* The step is a build() call on a layer no build() was attempted on.
FirstBuildStep == pc = "ready" /\ Unbuilt(layer) /\ BuildStep

\* The names given to the constructor
Requested == IF IsNone(ctor.features) THEN {} ELSE SetOf(Get(ctor.features))

IsFeedForward(self) ==
    ~IsNone(self.model) /\ Get(self.model).kind = "Model"

\* C1: once a build() call has returned normally, every later build() call
\* faults and leaves the built model, nFeatures and the number of model
\* objects ever created as they were.
BuildOnce ==
    [][ (pc = "built" /\ BuildStep)
          => /\ ret'.fault # NoFault
             /\ layer' = layer
             /\ nModels' = nModels
             /\ pc' = "built" ]_vars

BuildOnceWitness ==
    pc = "built" /\ ret.op = "build" /\ ret.fault = BuiltTwice /\ nModels = 1

\* C2: a first build() with a dict of two-dimensional shapes faults with
\* "Unknown feature" exactly when some requested name is not a key of the
\* dict; when it does, no model object has been constructed; keys that are
\* not requested (whatever their shape) never cause a fault.
UnknownFeatureIffAbsent ==
    [][ (/\ FirstBuildStep
         /\ shapes'.isMapping
         /\ \A f \in Requested \cap DOMAIN shapes'.items :
                Len(shapes'.items[f]) = 2)
          => /\ (ret'.fault = UnknownFeature
                   <=> \E f \in Requested : f \notin DOMAIN shapes'.items)
             /\ ret'.fault = UnknownFeature
                   => (IsNone(layer'.model) /\ nModels' = nModels)
             /\ (Requested \subseteq DOMAIN shapes'.items)
                   => ret'.fault \in {NoFault, "NotImplementedError: zero_model"} ]_vars

UnknownFeatureWitness ==
    /\ ret.op = "build" /\ ret.fault = UnknownFeature
    /\ Requested = {1, 2} /\ DOMAIN shapes.items = {2}
    /\ IsNone(layer.model)

\* C3: whenever call() concatenates, the tensors concatenated are those of
\* the requested names, deduplicated, in strictly increasing name order,
\* each the tensor the data dict holds under that name; hence every data dict
\* with the same tensors under the requested names (any key order, any
\* unrequested extra) yields the same concatenation.
ConcatOrder ==
    (ret.op = "call" /\ ret.concat # <<>>)
      => /\ \A i, j \in DOMAIN ret.concat :
                i < j => ret.concat[i][1] < ret.concat[j][1]
         /\ {ret.concat[i][1] : i \in DOMAIN ret.concat} = Requested
         /\ \A i \in DOMAIN ret.concat :
                ret.concat[i][2] = Lookup(data, ret.concat[i][1])
         /\ \A d \in DataArgs :
                (/\ d.isMapping
                 /\ \A f \in Requested :
                        HasKey(d, f) /\ Lookup(d, f) = Lookup(data, f))
                  => DenseLayer_call(layer, d).concat = ret.concat

ConcatOrderWitness ==
    /\ ret.op = "call" /\ ret.fault = NoFault
    /\ ctor.features = Some(<<2, 1>>)
    /\ Len(data.items) = 2 /\ data.items[1][1] = 2
    /\ Len(ret.concat) = 2 /\ ret.concat[1][1] = 1

\* C7: a layer configured with zero_model = TRUE never has a build() call
\* return normally.
ZeroModelNeverBuilds ==
    (pc \in {"ready", "built"} /\ layer.zero_model) => pc # "built"

\* C8: constructing with features None, or with an empty collection, and
\* otherwise valid arguments succeeds.
NoFeaturesConstructs ==
    (/\ pc # "new"
     /\ ctor.features \in {None, Some(<<>>)}
     /\ ctor.nOutput > 0
     /\ ctor.initial_value.kind # "ndarray")
      => pc # "failed"

\* C9: a first build() that faults with "Unknown feature" leaves the layer
\* exactly as it was (nFeatures and model both unset).
FailedBuildLeavesUnbuilt ==
    [][ (FirstBuildStep /\ ret'.fault = UnknownFeature)
          => (layer' = layer /\ Unbuilt(layer')) ]_vars

\* C10 as stated: the feed-forward model applies exactly depth dense layers.
DepthCountsAllLayers ==
    IsFeedForward(layer) => Len(Get(layer.model).layers) = layer.depth

\* C10 amended: the feed-forward model applies exactly depth + 1 dense
\* layers: depth layers of width units, then the output layer of nOutput
\* units.
DepthCountsHiddenLayers ==
    IsFeedForward(layer)
      => LET layers == Get(layer.model).layers
         IN  /\ Len(layers) = ctor.config.depth + 1
             /\ \A i \in 1..ctor.config.depth :
                    layers[i] = [units |-> DefaultWidth, activation |-> "relu"]
             /\ layers[Len(layers)] =
                    [units |-> ctor.nOutput, activation |-> "linear"]

DepthOneWitness ==
    /\ IsFeedForward(layer) /\ pc = "built"
    /\ layer.depth = 1 /\ Len(Get(layer.model).layers) = 2

(***************************************************************************)
(* Properties of utility()                                                 *)
(***************************************************************************)
Called == ucall.op = "utility"

Gains(i) == ucall.X[i] + (IF IsNone(ucall.y) THEN 0 ELSE Get(ucall.y))

\* 0 <= lmbda < 1E-12, read off the decimal
TinyLmbda ==
    /\ ucall.lmbda.m >= 0
    /\ \/ ucall.lmbda.m = 0
       \/ ucall.lmbda.e = 13 /\ ucall.lmbda.m < 10

\* C4: for each of the six families and every 0 <= lmbda < 1E-12 the call
\* evaluates the mean formula and no other: u = X + y and d = 1 on every
\* sample.
TinyLmbdaSelectsMean ==
    (Called /\ ucall.utility \in Families /\ TinyLmbda)
      => /\ ucall.ret.fault = NoFault
         /\ ucall.ret.branch = "mean"
         /\ \A i \in DOMAIN ucall.X :
                ucall.ret.u[i] = Gains(i) /\ ucall.ret.d[i] = SCALE

TinyLmbdaWitness ==
    /\ Called /\ ucall.utility = "quad" /\ ucall.lmbda = [m |-> 9, e |-> 13]
    /\ ucall.y = Some(SCALE) /\ ucall.X = [i \in 1..BatchLen |-> -2 * SCALE]
    /\ ucall.ret.branch = "mean"

\* The families whose formulas are piecewise polynomial, where the
\* fixed-point arithmetic and a central difference are exact.
ExactFamilies == {"mean", "cvar", "quad"}

\* the gain at which the formula of a family changes
Breakpoint(name, L) == IF name = "quad" THEN FDiv(SCALE, L) ELSE 0

\* (u(gains + h) - u(gains - h)) / 2h of sample i, y held fixed, h = 1/2
Slope(i) ==
    LET up == utility(ucall.utility, ucall.lmbda,
                      [ucall.X EXCEPT ![i] = @ + HALF], ucall.y)
        dn == utility(ucall.utility, ucall.lmbda,
                      [ucall.X EXCEPT ![i] = @ - HALF], ucall.y)
    IN  FDiv(up.u[i] - dn.u[i], 2 * HALF)

\* C5 (on the piecewise polynomial families): for lmbda >= 1E-12 and every
\* sample whose gains lie more than h away from the breakpoint, the returned
\* d equals the finite-difference slope of the returned u in gains.
DerivativeMatchesSlope ==
    (/\ Called /\ ucall.ret.fault = NoFault
     /\ ucall.utility \in ExactFamilies
     /\ ~TinyLmbda)
      => \A i \in DOMAIN ucall.X :
            LET bp == Breakpoint(ucall.utility, ToFixed(ucall.lmbda))
            IN  (Gains(i) - bp > HALF \/ bp - Gains(i) > HALF)
                  => ucall.ret.d[i] = Slope(i)

(***************************************************************************)
(* Properties of MonetaryUtility.__init__                                  *)
(***************************************************************************)
Constructed == pc = "ready"
Rejected == pc = "failed"

\* C6 as stated: for each of the six families the construction is rejected
\* exactly when lmbda is negative (so "mean" with lmbda = 0 constructs).
RejectsExactlyNegative ==
    (pc # "new" /\ obj.config.utility \in Families)
      => (Rejected <=> obj.config.lmbda.m < 0)

\* C6 amended: for each of the six families the construction is rejected
\* exactly when lmbda is not strictly positive; "mean" with lmbda > 0
\* constructs with y a non-trainable variable initialised with the value 0.
RejectsExactlyNonPositive ==
    (pc # "new" /\ obj.config.utility \in Families)
      => /\ Rejected <=> obj.config.lmbda.m <= 0
         /\ (Constructed /\ obj.config.utility = "mean")
              => /\ obj.self.y.kind = "VariableLayer"
                 /\ Get(obj.self.y.variable).init = "value"
                 /\ ~Get(obj.self.y.variable).trainable

MeanZeroLmbdaWitness ==
    /\ Rejected /\ obj.config.utility = "mean"
    /\ obj.config.lmbda = [m |-> 0, e |-> 0]
    /\ ucall.ret.fault = "VerifyError: 'lmnda' must be positive"

====
